---- MODULE Spec2Model ----
(***************************************************************************)
(* A model of ifc-graph.py: the in-memory property graph (Node,            *)
(* Relationship, Graph.merge), the node builder                            *)
(* (create_pure_node_from_ifc_entity), the relationship extractor          *)
(* (create_graph_from_ifc_entity_all), the model walker                    *)
(* (create_full_graph), the emitter (write_graph_to_neo4j) and main.       *)
(*                                                                         *)
(* The IFC file and the Neo4j server are the program's environment.  The   *)
(* file is a small schema-described model drawn in the initial state; the  *)
(* server is a map from database name to content, with a home database     *)
(* that statements without a database argument are routed to.              *)
(***************************************************************************)
EXTENDS Integers, Sequences, FiniteSets, Bags, TLC

VARIABLES
    file,           \* the opened IFC file: [refs, scalar]
    nodes,          \* graph.nodes
    relationships,  \* graph.relationships
    uuids,          \* number of uuid4() calls made so far
    built,          \* history: <<native id, identity>> of every Builder call
    walked,         \* entity ids the walker has already extracted
    last,           \* the argument of the latest extract or merge call (0: none yet)
    pc,             \* position in main / in the driver of the operation
    home,           \* the server's home database (used when none is named)
    db,             \* server content per database: [prior, stmts]
    log,            \* every execute_query call so far: [kind, database, raised]
    issuedNodes,    \* bag of nodes whose CREATE statement emit has sent
    issuedRels,     \* bag of relationships whose MATCH..CREATE emit has sent
    todoNodes,      \* nodes the first loop of emit has not reached yet
    todoRels,       \* relationships the second loop of emit has not reached yet
    merged          \* number of Graph.merge calls made by the merge driver

vars == <<file, nodes, relationships, uuids, built, walked, last, pc, home, db,
          log, issuedNodes, issuedRels, todoNodes, todoRels, merged>>

(***************************************************************************)
(* Bounds of the model.                                                    *)
(***************************************************************************)
NumEntities == 3
MaxRefs == 2
MaxRunRefs == 1
MaxMerges == 4

(***************************************************************************)
(* The source model.  Entities are named by their native identifier        *)
(* 1..NumEntities; handle 0 is an inline value (an IfcLabel), whose id()   *)
(* is 0.  A file is a set of forward references <<src, kind, tgt>> plus    *)
(* the name its schema gives the scalar attribute of an entity.            *)
(***************************************************************************)
Entities == 1..NumEntities

Handles == 0..NumEntities

RefUniverse == {r \in Entities \X {"single", "coll"} \X Handles : r[1] # r[3]}

WellFormed(refs) ==
    \A r \in refs : \A s \in refs :
        (r[1] = s[1] /\ r[2] = "single" /\ s[2] = "single") => r = s

\* the subsets of S with at most k elements
RECURSIVE SubsetsUpTo(_, _)
SubsetsUpTo(S, k) ==
    IF k = 0 THEN {{}}
    ELSE LET P == SubsetsUpTo(S, k - 1)
         IN  P \cup {X \cup {r} : X \in P, r \in S}

Files(maxRefs, scalarNames) ==
    {[refs |-> R, scalar |-> s] :
        R \in {X \in SubsetsUpTo(RefUniverse, maxRefs) : WellFormed(X)},
        s \in scalarNames}

RECURSIVE SortedSeq(_)
SortedSeq(S) ==
    IF S = {} THEN <<>>
    ELSE LET m == CHOOSE x \in S : \A y \in S : x <= y
         IN  <<m>> \o SortedSeq(S \ {m})

\* entity.id()
Id(h) == h

\* str(k) of a native identifier
Str(k) == ToString(k)

\* str(uuid4()): the n-th fresh value; never a decimal numeral
Uuid4(n) == "uuid-" \o ToString(n)

\* entity.is_a()
IsA(h) ==
    CASE h = 0 -> "IfcLabel"
      [] h = 1 -> "IfcProject"
      [] h = 2 -> "IfcOwnerHistory"
      [] OTHER -> "IfcWall"

\* ifc_file.wrapped_data.types_with_super()
TypesWithSuper ==
    {"IfcRoot", "IfcProduct", "IfcBuildingElement", "IfcWall", "IfcProject",
     "IfcOwnerHistory", "IfcLabel"}

Ancestors(t) ==
    CASE t = "IfcWall" -> {"IfcWall", "IfcBuildingElement", "IfcProduct", "IfcRoot"}
      [] t = "IfcProject" -> {"IfcProject", "IfcRoot"}
      [] OTHER -> {t}

\* entity.is_a(label)
IsAType(h, label) == label \in Ancestors(IsA(h))

\* entity.__len__(): the number of attributes
EntityLen(h) == IF h = 0 THEN 1 ELSE 4

\* entity.wrapped_data.get_argument_type(i), i counted from 1 here
GetArgumentType(h, i) ==
    IF h = 0 THEN "STRING"
    ELSE CASE i = 1 -> "STRING"
           [] i = 2 -> "ENTITY INSTANCE"
           [] i = 3 -> "AGGREGATE OF ENTITY INSTANCE"
           [] OTHER -> "DERIVED"

\* entity.wrapped_data.get_argument_name(i)
GetArgumentName(f, h, i) ==
    IF h = 0 THEN "wrappedValue"
    ELSE CASE i = 1 -> f.scalar
           [] i = 2 -> "OwnerHistory"
           [] i = 3 -> "Representations"
           [] OTHER -> "Dim"

\* entity.wrapped_data.get_argument(i) of a scalar attribute
ScalarArgument(h, i) == IF h = 0 THEN "x" ELSE "G" \o ToString(h)

\* entity[i] of an ENTITY INSTANCE attribute: {} is None
EntityArgument(f, h, i) == {r[3] : r \in {x \in f.refs : x[1] = h /\ x[2] = "single"}}

\* entity[i] of an AGGREGATE OF ENTITY INSTANCE attribute
AggregateArgument(f, h, i) ==
    SortedSeq({r[3] : r \in {x \in f.refs : x[1] = h /\ x[2] = "coll"}})

\* `if ifc_entity[i]:'
Truthy(f, h, i) ==
    CASE GetArgumentType(h, i) = "ENTITY INSTANCE" -> EntityArgument(f, h, i) # {}
      [] GetArgumentType(h, i) = "AGGREGATE OF ENTITY INSTANCE" ->
            Len(AggregateArgument(f, h, i)) > 0
      [] GetArgumentType(h, i) = "DERIVED" -> FALSE
      [] OTHER -> ScalarArgument(h, i) # ""

\* entity.wrapped_data.get_inverse_attribute_names()
GetInverseAttributeNames(h) ==
    IF h = 0 THEN <<>> ELSE <<"OwnerOf", "OfProductRepresentation">>

\* entity.wrapped_data.get_inverse(rel_name): the entities that refer to h
GetInverse(f, h, rel_name) ==
    LET kind == IF rel_name = "OwnerOf" THEN "single" ELSE "coll"
    IN  SortedSeq({r[1] : r \in {x \in f.refs : x[3] = h /\ x[2] = kind}})

\* ifc_file.by_id(k)
ById(k) == k

\* ifc_file.wrapped_data.entity_names()
EntityNames == SortedSeq(Entities)

(***************************************************************************)
(* Node: a dict with a label set, a primary label and a primary key.       *)
(***************************************************************************)
\* dict.__setitem__: a new key goes last, a known key keeps its place
Put(d, k, v) ==
    IF \E i \in 1..Len(d) : d[i][1] = k
    THEN [i \in 1..Len(d) |-> IF d[i][1] = k THEN <<k, v>> ELSE d[i]]
    ELSE Append(d, <<k, v>>)

\* dict.__getitem__
Get(d, k) == d[CHOOSE i \in 1..Len(d) : d[i][1] = k][2]

\* Node.__hash__: hash(self.__primarykey__).  Python's hash of a str is taken
\* to be injective on the identities of one run.
NodeHash(n) == n.primarykey

\* Node.__eq__
NodeEq(a, b) == NodeHash(a) = NodeHash(b)

\* Relationship.__init__
Relationship(start_node, rel_type, end_node) ==
    [cls |-> "Relationship", start_node |-> start_node, rel_type |-> rel_type,
     end_node |-> end_node]

\* Relationship.__hash__: hash((start_node, rel_type, end_node))
RelHash(r) == <<NodeHash(r.start_node), r.rel_type, NodeHash(r.end_node)>>

\* Relationship.__eq__
RelEq(a, b) == RelHash(a) = RelHash(b)

(***************************************************************************)
(* Graph.  A graph value g carries, beside nodes and relationships, the    *)
(* uuid4 counter and the history of Builder calls, so that the extractor   *)
(* is an operator on g.                                                    *)
(***************************************************************************)
EmptyGraph == [nodes |-> {}, relationships |-> {}, uuids |-> 0, built |-> {}]

\* a mutation of MergeNode: the later node replaces the one kept
MergeNodeLastWins(g, n) ==
    [g EXCEPT !.nodes = {m \in g.nodes : ~NodeEq(m, n)} \cup {n}]

\* self.nodes.add(entity): set.add keeps the element already present
MergeNode(g, n) ==
    IF \E m \in g.nodes : NodeEq(m, n) THEN g
    ELSE [g EXCEPT !.nodes = g.nodes \cup {n}]

\* a mutation of MergeRelationship: an edge is kept only between known nodes
MergeRelationshipKnownEnds(g, r) ==
    IF \/ \E q \in g.relationships : RelEq(q, r)
       \/ ~\E m \in g.nodes : NodeEq(m, r.end_node)
    THEN g
    ELSE [g EXCEPT !.relationships = g.relationships \cup {r}]

\* self.relationships.add(entity)
MergeRelationship(g, r) ==
    IF \E q \in g.relationships : RelEq(q, r) THEN g
    ELSE [g EXCEPT !.relationships = g.relationships \cup {r}]

\* Graph.merge raises TypeError for anything but a Node or a Relationship
MergeRaises(x) == x.cls \notin {"Node", "Relationship"}

\* Graph.merge
Merge(g, x) ==
    CASE x.cls = "Node" -> MergeNode(g, x)
      [] x.cls = "Relationship" -> MergeRelationship(g, x)
      [] OTHER -> g

(***************************************************************************)
(* The Builder.                                                            *)
(***************************************************************************)
AttributesType == {"ENTITY INSTANCE", "AGGREGATE OF ENTITY INSTANCE", "DERIVED"}

\* the loop over the attributes of create_pure_node_from_ifc_entity
RECURSIVE SetScalars(_, _, _, _)
SetScalars(d, f, h, i) ==
    IF i > EntityLen(h) THEN d
    ELSE IF GetArgumentType(h, i) \notin AttributesType
         THEN SetScalars(Put(d, GetArgumentName(f, h, i), ScalarArgument(h, i)), f, h, i + 1)
         ELSE SetScalars(d, f, h, i + 1)

\* create_pure_node_from_ifc_entity; u is the number of uuid4() calls before it
CreatePureNodeFromIfcEntity(f, h, u, hierarchy) ==
    LET d0 == Put(<<>>, "id", IF Id(h) # 0 THEN Str(Id(h)) ELSE Uuid4(u + 1))
        d1 == Put(d0, "name", IsA(h))
        labels == IF hierarchy THEN {t \in TypesWithSuper : IsAType(h, t)} ELSE {IsA(h)}
        d2 == SetScalars(d1, f, h, 1)
    IN  [cls |-> "Node", props |-> d2, labels |-> labels,
         primarylabel |-> Get(d2, "name"), primarykey |-> Get(d2, "id")]

\* the node one Builder call returns in graph state g
NodeOf(g, f, h) == CreatePureNodeFromIfcEntity(f, h, g.uuids, TRUE)

\* g after that Builder call: one more uuid4() for an inline value
AfterBuild(g, f, h) ==
    [g EXCEPT !.uuids = IF Id(h) = 0 THEN @ + 1 ELSE @,
              !.built = @ \cup {<<Id(h), NodeOf(g, f, h).primarykey>>}]

(***************************************************************************)
(* The Extractor.                                                          *)
(***************************************************************************)
\* a mutation of SkipOwnerHistory: the skip rule is missing
SkipNever(entity, referenced) == FALSE

\* a mutation of SkipOwnerHistory: the test on the project is inverted
SkipForProject(entity, referenced) ==
    IsA(referenced) \in {"IfcOwnerHistory"} /\ IsA(entity) = "IfcProject"

\* the skip rule of create_graph_from_ifc_entity_all
SkipOwnerHistory(entity, referenced) ==
    IsA(referenced) \in {"IfcOwnerHistory"} /\ IsA(entity) # "IfcProject"

\* a mutation of AggregateLoop: the loop stops after its first element
AggregateFirstOnly(g, f, node, name, elems, j) ==
    IF j > Len(elems) THEN g
    ELSE MergeRelationship(AfterBuild(g, f, elems[j]),
                           Relationship(node, name, NodeOf(g, f, elems[j])))

\* `for sub_entity in ifc_entity[i]' of create_graph_from_ifc_entity_all
RECURSIVE AggregateLoop(_, _, _, _, _, _)
AggregateLoop(g, f, node, name, elems, j) ==
    IF j > Len(elems) THEN g
    ELSE AggregateLoop(
            Merge(AfterBuild(g, f, elems[j]),
                  Relationship(node, name, NodeOf(g, f, elems[j]))),
            f, node, name, elems, j + 1)

\* `for i in range(ifc_entity.__len__())' of create_graph_from_ifc_entity_all
RECURSIVE ForwardLoop(_, _, _, _, _)
ForwardLoop(g, f, e, node, i) ==
    IF i > EntityLen(e) THEN g
    ELSE IF ~Truthy(f, e, i) THEN ForwardLoop(g, f, e, node, i + 1)
    ELSE IF GetArgumentType(e, i) = "ENTITY INSTANCE"
         THEN LET r == CHOOSE x \in EntityArgument(f, e, i) : TRUE
              IN  IF SkipOwnerHistory(e, r)
                  THEN ForwardLoop(g, f, e, node, i + 1)
                  ELSE ForwardLoop(
                          Merge(AfterBuild(g, f, r),
                                Relationship(node, GetArgumentName(f, e, i), NodeOf(g, f, r))),
                          f, e, node, i + 1)
    ELSE IF GetArgumentType(e, i) = "AGGREGATE OF ENTITY INSTANCE"
         THEN ForwardLoop(
                 AggregateLoop(g, f, node, GetArgumentName(f, e, i),
                               AggregateArgument(f, e, i), 1),
                 f, e, node, i + 1)
    ELSE ForwardLoop(g, f, e, node, i + 1)

\* `for wrapped_rel_entity in inverse_relations'
RECURSIVE InverseEntities(_, _, _, _, _, _)
InverseEntities(g, f, node, rel_name, rels, j) ==
    IF j > Len(rels) THEN g
    ELSE LET rel_entity == ById(Id(rels[j]))
         IN  InverseEntities(
                Merge(AfterBuild(g, f, rel_entity),
                      Relationship(node, rel_name, NodeOf(g, f, rel_entity))),
                f, node, rel_name, rels, j + 1)

\* `for rel_name in ifc_entity.wrapped_data.get_inverse_attribute_names()'
RECURSIVE InverseLoop(_, _, _, _, _)
InverseLoop(g, f, e, node, k) ==
    IF k > Len(GetInverseAttributeNames(e)) THEN g
    ELSE LET rel_name == GetInverseAttributeNames(e)[k]
         IN  IF Len(GetInverse(f, e, rel_name)) > 0
             THEN InverseLoop(
                     InverseEntities(g, f, node, rel_name, GetInverse(f, e, rel_name), 1),
                     f, e, node, k + 1)
             ELSE InverseLoop(g, f, e, node, k + 1)

\* create_graph_from_ifc_entity_all
CreateGraphFromIfcEntityAll(g, e, f) ==
    LET node == NodeOf(g, f, e)
        g1 == Merge(AfterBuild(g, f, e), node)
        g2 == ForwardLoop(g1, f, e, node, 1)
    IN  InverseLoop(g2, f, e, node, 1)

\* create_full_graph from position idx of entity_names()
RECURSIVE CreateFullGraph(_, _, _)
CreateFullGraph(g, f, idx) ==
    IF idx > Len(EntityNames) THEN g
    ELSE CreateFullGraph(CreateGraphFromIfcEntityAll(g, ById(EntityNames[idx]), f), f, idx + 1)

(***************************************************************************)
(* The sink: a Neo4j server holding named databases.                       *)
(***************************************************************************)
Databases == {"neo4j", "ifc-graph"}

\* main passes "ifc-graph" to write_graph_to_neo4j
Target == "ifc-graph"

\* the effect of one statement the server executed
Executed(content, kind) ==
    IF kind = "CLEAR" THEN [prior |-> FALSE, stmts |-> 0]
    ELSE [content EXCEPT !.stmts = @ + 1]

\* a mutation of OnRaise: an error inside emit is swallowed and the loop goes on
RaiseIgnored == IF pc = "emit" THEN "emit" ELSE "caught"

\* an exception leaves the try block of main for `except Exception as e'
OnRaise == "caught"

\* driver.execute_query(query, database=database); ok: the server did not raise
ExecuteQuery(kind, database, ok, next) ==
    /\ log' = Append(log, [kind |-> kind, database |-> database, raised |-> ~ok])
    /\ db' = IF ok THEN [db EXCEPT ![database] = Executed(@, kind)] ELSE db
    /\ pc' = IF ok THEN next ELSE OnRaise

(***************************************************************************)
(* The graph held in the variables, as a graph value and back.             *)
(***************************************************************************)
Graph == [nodes |-> nodes, relationships |-> relationships, uuids |-> uuids,
          built |-> built]

SetGraph(g) ==
    /\ nodes' = g.nodes
    /\ relationships' = g.relationships
    /\ uuids' = g.uuids
    /\ built' = g.built

NoSink == UNCHANGED <<home, db, log, issuedNodes, issuedRels, todoNodes, todoRels>>

NoGraph == UNCHANGED <<nodes, relationships, uuids, built, walked, last>>

InitCommon ==
    /\ nodes = {}
    /\ relationships = {}
    /\ uuids = 0
    /\ built = {}
    /\ walked = {}
    /\ last = 0
    /\ db = [d \in Databases |-> [prior |-> TRUE, stmts |-> 0]]
    /\ log = <<>>
    /\ issuedNodes = EmptyBag
    /\ issuedRels = EmptyBag
    /\ todoNodes = {}
    /\ todoRels = {}
    /\ merged = 0

(***************************************************************************)
(* main: open the file and the driver, clear, build, emit.                 *)
(***************************************************************************)
Init ==
    /\ InitCommon
    /\ file \in Files(MaxRunRefs, {"GlobalId"})
    /\ home \in Databases
    /\ pc = "open"

\* ifcopenshell.open and GraphDatabase.driver succeed
Open ==
    /\ pc = "open"
    /\ pc' = "clear"
    /\ UNCHANGED <<file, merged>>
    /\ NoGraph
    /\ NoSink

\* ifcopenshell.open or GraphDatabase.driver raises
OpenFails ==
    /\ pc = "open"
    /\ pc' = OnRaise
    /\ UNCHANGED <<file, merged>>
    /\ NoGraph
    /\ NoSink

\* driver.execute_query("MATCH (n) DETACH DELETE n"): no database is named,
\* so the server runs it against its home database
Clear ==
    /\ pc = "clear"
    /\ \E ok \in BOOLEAN : ExecuteQuery("CLEAR", home, ok, "build")
    /\ UNCHANGED <<file, merged, home, issuedNodes, issuedRels, todoNodes, todoRels>>
    /\ NoGraph

\* one call of create_graph_from_ifc_entity_all on entity e
Extract(e) ==
    /\ pc = "build"
    /\ e \in Entities \ walked
    /\ SetGraph(CreateGraphFromIfcEntityAll(Graph, ById(e), file))
    /\ walked' = walked \cup {e}
    /\ last' = e
    /\ UNCHANGED <<file, pc, merged>>
    /\ NoSink

\* one iteration of create_full_graph: the next name of entity_names()
Walk ==
    \E e \in Entities \ walked :
        /\ \A x \in Entities \ walked : e <= x
        /\ Extract(e)

\* create_full_graph returns and write_graph_to_neo4j starts its first loop
StartEmit ==
    /\ pc = "build"
    /\ walked = Entities
    /\ pc' = "emit"
    /\ todoNodes' = nodes
    /\ todoRels' = relationships
    /\ UNCHANGED <<file, merged, home, db, log, issuedNodes, issuedRels>>
    /\ NoGraph

\* a mutation of NodesLoopDone: the two loops of emit are interleaved
NodesLoopInterleaved == TRUE

\* `for rel in graph.relationships' starts when `for node in graph.nodes' is over
NodesLoopDone == todoNodes = {}

\* one iteration of `for node in graph.nodes'
EmitNode ==
    /\ pc = "emit"
    /\ \E n \in todoNodes : \E ok \in BOOLEAN :
        /\ ExecuteQuery("CREATE", Target, ok, "emit")
        /\ issuedNodes' = issuedNodes (+) SetToBag({n})
        /\ todoNodes' = todoNodes \ {n}
    /\ UNCHANGED <<file, merged, home, issuedRels, todoRels>>
    /\ NoGraph

\* one iteration of `for rel in graph.relationships'
EmitRel ==
    /\ pc = "emit"
    /\ NodesLoopDone
    /\ \E r \in todoRels : \E ok \in BOOLEAN :
        /\ ExecuteQuery("MATCH", Target, ok, "emit")
        /\ issuedRels' = issuedRels (+) SetToBag({r})
        /\ todoRels' = todoRels \ {r}
    /\ UNCHANGED <<file, merged, home, issuedNodes, todoNodes>>
    /\ NoGraph

\* write_graph_to_neo4j returns; main falls off the try block
Finish ==
    /\ pc = "emit"
    /\ todoNodes = {}
    /\ todoRels = {}
    /\ pc' = "done"
    /\ UNCHANGED <<file, merged>>
    /\ NoGraph
    /\ NoSink

\* `except Exception as e: print(e)': the run stops
Report ==
    /\ pc = "caught"
    /\ pc' = "done"
    /\ UNCHANGED <<file, merged>>
    /\ NoGraph
    /\ NoSink

Next ==
    \/ Open
    \/ OpenFails
    \/ Clear
    \/ Walk
    \/ StartEmit
    \/ EmitNode
    \/ EmitRel
    \/ Finish
    \/ Report

Spec == Init /\ [][Next]_vars

(***************************************************************************)
(* The extractor alone: extract calls on the entities of a file, in any    *)
(* order, into a graph that starts empty.                                  *)
(***************************************************************************)
InitExtract ==
    /\ InitCommon
    /\ file \in Files(MaxRefs, {"GlobalId"})
    /\ home = "neo4j"
    /\ pc = "build"

ExtractAny == \E e \in Entities : Extract(e)

NextExtract == ExtractAny

SpecExtract == InitExtract /\ [][NextExtract]_vars

(***************************************************************************)
(* The Builder under schemas that name the scalar attribute freely.        *)
(***************************************************************************)
ScalarNames == {"GlobalId", "id", "name"}

InitBuilder ==
    /\ InitCommon
    /\ file \in Files(MaxRunRefs, ScalarNames)
    /\ home = "neo4j"
    /\ pc = "build"

SpecBuilder == InitBuilder /\ [][NextExtract]_vars

(***************************************************************************)
(* Graph.merge alone, fed nodes that share an identity and differ in       *)
(* labels and properties, relationships between them, and a value that is  *)
(* neither.                                                                *)
(***************************************************************************)
SampleHandles == {1, 2}

SampleNodes ==
    {CreatePureNodeFromIfcEntity([refs |-> {}, scalar |-> "GlobalId"], h, 0, TRUE) :
        h \in SampleHandles}
    \cup
    {CreatePureNodeFromIfcEntity([refs |-> {}, scalar |-> "Name"], h, 0, FALSE) :
        h \in SampleHandles}

SampleRels ==
    {Relationship(a, t, b) :
        a \in SampleNodes, t \in {"Owner"}, b \in {n \in SampleNodes : n.primarykey # "1"}}

SampleOther == [cls |-> "str"]

InitMerge ==
    /\ InitCommon
    /\ file = [refs |-> {}, scalar |-> "GlobalId"]
    /\ home = "neo4j"
    /\ pc = "merge"

\* graph.merge(x)
MergeCall(x) ==
    /\ pc = "merge"
    /\ merged < MaxMerges
    /\ merged' = merged + 1
    /\ IF MergeRaises(x)
       THEN /\ pc' = "raised"
            /\ UNCHANGED <<nodes, relationships, uuids, built>>
       ELSE /\ pc' = pc
            /\ SetGraph(Merge(Graph, x))
    /\ last' = x
    /\ UNCHANGED <<file, walked>>
    /\ NoSink

MergeANode == \E n \in SampleNodes : MergeCall(n)

MergeARelationship == \E r \in SampleRels : MergeCall(r)

MergeOther == MergeCall(SampleOther)

NextMerge ==
    \/ MergeANode
    \/ MergeARelationship
    \/ MergeOther

SpecMerge == InitMerge /\ [][NextMerge]_vars

(***************************************************************************)
(* Properties.                                                             *)
(***************************************************************************)
Keys(N) == {NodeHash(n) : n \in N}

Triples(R) == {RelHash(r) : r \in R}

Raised == \E i \in DOMAIN log : log[i].raised

Count(kind) == Cardinality({i \in DOMAIN log : log[i].kind = kind})

NoInline(f) == \A r \in f.refs : r[3] # 0

\* C1: endpoint closure.  After any sequence of extract calls into a graph
\* that started empty, both endpoints of every relationship of
\* graph.relationships are identities of nodes of graph.nodes.
C1_EndpointClosure ==
    \A r \in relationships :
        /\ NodeHash(r.start_node) \in Keys(nodes)
        /\ NodeHash(r.end_node) \in Keys(nodes)

\* C2: the OwnerHistory skip rule.  An extract call on an entity e that is not
\* an IfcProject and whose single-entity-reference attribute points to an
\* IfcOwnerHistory r adds no node with r's identity and no relationship for
\* that attribute, and still adds one relationship per element of e's
\* collection attribute.
C2_OwnerHistorySkip ==
    [][\A e \in Entities : \A r \in EntityArgument(file, e, 2) :
          (/\ e \in walked' \ walked
           /\ IsA(e) # "IfcProject"
           /\ IsA(r) = "IfcOwnerHistory")
          => /\ Str(Id(r)) \notin Keys(nodes' \ nodes)
             /\ <<Str(Id(e)), "OwnerHistory", Str(Id(r))>> \notin Triples(relationships')
             /\ \A q \in relationships' \ relationships : q.rel_type # "OwnerHistory"
             /\ Cardinality({q \in relationships' \ relationships :
                                q.rel_type = "Representations"})
                    = Len(AggregateArgument(file, e, 3))]_vars

\* C2 witness: a wall that refers to the owner history and holds a collection
\* has been extracted.
C2_Witness ==
    /\ walked = {3}
    /\ EntityArgument(file, 3, 2) = {2}
    /\ Len(AggregateArgument(file, 3, 3)) = 1
    /\ Cardinality(relationships) = 1

\* C3: dedup with first-write-wins.  Graph.merge of a node whose identity is
\* already held leaves graph.nodes as it was (the node kept has the labels and
\* properties of the first one merged); Graph.merge of a relationship whose
\* triple is already held leaves graph.relationships as it was.
C3_FirstWriteWins ==
    [][(merged' = merged + 1 /\ ~MergeRaises(last'))
          => /\ (last'.cls = "Node" /\ NodeHash(last') \in Keys(nodes))
                    => (nodes' = nodes /\ relationships' = relationships)
             /\ (last'.cls = "Relationship" /\ RelHash(last') \in Triples(relationships))
                    => (nodes' = nodes /\ relationships' = relationships)
             /\ Cardinality(Keys(nodes')) = Cardinality(nodes')
             /\ Cardinality(Triples(relationships')) = Cardinality(relationships')]_vars

\* C3 witness: two merges of one identity, the second with other labels and
\* properties, left one node: the first.
C3_Witness ==
    /\ merged = 2
    /\ Cardinality(nodes) = 1
    /\ relationships = {}
    /\ last.cls = "Node"
    /\ last \notin nodes
    /\ NodeHash(last) \in Keys(nodes)

\* C4: traversal-order independence.  For a file without inline values, the
\* extract calls over all entities in any order leave the relationship
\* triples and the node identities that create_full_graph leaves in the order
\* of entity_names().
C4_OrderIndependence ==
    (walked = Entities /\ NoInline(file))
        => LET ref == CreateFullGraph(EmptyGraph, file, 1)
           IN  /\ Triples(relationships) = Triples(ref.relationships)
               /\ Keys(nodes) = Keys(ref.nodes)

\* C4 witness: entity 3 refers to entity 1 through its forward attribute and
\* was extracted before entity 1, which was extracted last.
C4_Witness ==
    /\ walked = Entities
    /\ NoInline(file)
    /\ <<3, "single", 1>> \in file.refs
    /\ last = 1
    /\ Cardinality(relationships) >= 2

\* C5: emission ordering.  In the statements emit sends, every CREATE precedes
\* every MATCH..CREATE; the node of graph.nodes at either end of a relationship
\* whose statement was sent has had its CREATE sent; no statement is sent
\* twice; and a completed emit has sent one CREATE per node and one
\* MATCH..CREATE per relationship.
C5_EmissionOrdering ==
    /\ \A i \in DOMAIN log : \A j \in DOMAIN log :
          (i < j /\ log[i].kind = "MATCH") => log[j].kind # "CREATE"
    /\ \A r \in BagToSet(issuedRels) : \A n \in nodes :
          NodeHash(n) \in {NodeHash(r.start_node), NodeHash(r.end_node)}
              => n \in BagToSet(issuedNodes)
    /\ \A n \in BagToSet(issuedNodes) : n \in nodes /\ CopiesIn(n, issuedNodes) = 1
    /\ \A r \in BagToSet(issuedRels) : r \in relationships /\ CopiesIn(r, issuedRels) = 1
    /\ (pc = "done" /\ ~Raised /\ log # <<>>)
          => /\ BagToSet(issuedNodes) = nodes
             /\ BagToSet(issuedRels) = relationships
             /\ Count("CREATE") = Cardinality(nodes)
             /\ Count("MATCH") = Cardinality(relationships)

\* C5 witness: emit has completed on a graph of three nodes and two
\* relationships.
C5_Witness ==
    /\ pc = "done"
    /\ ~Raised
    /\ Count("CREATE") = 3
    /\ Count("MATCH") = 2

\* C6: collection expansion.  Once e has been extracted, the relationships
\* from e named after its collection attribute are exactly one per element,
\* each to that element, when the elements have non-zero identifiers.
C6_CollectionExpansion ==
    \A e \in walked :
        LET elems == AggregateArgument(file, e, 3)
            mine == {q \in relationships :
                        /\ NodeHash(q.start_node) = Str(Id(e))
                        /\ q.rel_type = GetArgumentName(file, e, 3)}
        IN  (Len(elems) > 0 /\ \A j \in DOMAIN elems : Id(elems[j]) # 0)
                => /\ Triples(mine) =
                        {<<Str(Id(e)), "Representations", Str(Id(elems[j]))>> :
                            j \in DOMAIN elems}
                   /\ Cardinality(mine) = Len(elems)

\* C6 witness: an entity with a collection of two elements has been extracted.
C6_Witness ==
    \E e \in walked :
        /\ Len(AggregateArgument(file, e, 3)) = 2
        /\ \A j \in 1..2 : Id(AggregateArgument(file, e, 3)[j]) # 0
        /\ Cardinality(relationships) = 2

\* C7: identity stability.  Every Builder call for an entity with non-zero
\* native identifier k returns a node whose identity is the string form of k,
\* whatever scalar attributes the entity carries.
C7_IdentityStability ==
    \A b \in built : b[1] # 0 => b[2] = Str(b[1])

\* C8: sink-write failure.  Once a statement has raised, no further statement
\* is sent, the content of the server stays as it is (the statements executed
\* before are not rolled back), and the run is at the top-level boundary or
\* over.
C8_SinkWriteFailure ==
    /\ [][Raised => (/\ log' = log
                     /\ db' = db
                     /\ issuedNodes' = issuedNodes
                     /\ issuedRels' = issuedRels
                     /\ pc' \in {"caught", "done"})]_vars
    /\ [](Raised => /\ pc \in {"caught", "done"}
                    /\ log[Len(log)].raised
                    /\ \A i \in 1..(Len(log) - 1) : ~log[i].raised
                    /\ db[Target].stmts =
                          Cardinality({i \in DOMAIN log :
                                          /\ log[i].kind \in {"CREATE", "MATCH"}
                                          /\ ~log[i].raised}))

\* C8 witness: the run is over after the first relationship statement raised,
\* with three node statements executed and one relationship never sent.
C8_Witness ==
    /\ pc = "done"
    /\ Raised
    /\ log[Len(log)].kind = "MATCH"
    /\ Count("MATCH") = 1
    /\ db[Target].stmts = 3
    /\ todoRels # {}

\* C9: only the project's ownership link is kept.  After a complete
\* traversal, every relationship whose target node is an IfcOwnerHistory has a
\* source node that is an IfcProject.
C9_OnlyProjectLink ==
    walked = Entities
        => \A r \in relationships :
              r.end_node.primarylabel = "IfcOwnerHistory"
                  => r.start_node.primarylabel = "IfcProject"

\* C9 amended: every relationship that a single-entity-reference attribute
\* produced (it carries that attribute's name) and whose target is an
\* IfcOwnerHistory has a source that is an IfcProject.
C9_SingleReferenceOnlyProject ==
    \A r \in relationships :
        (/\ r.rel_type = "OwnerHistory"
         /\ r.end_node.primarylabel = "IfcOwnerHistory")
            => r.start_node.primarylabel = "IfcProject"

\* C9 witness: the project and a wall both refer to the owner history, both
\* have been extracted, and the project's link is in the graph.
C9_Witness ==
    /\ {<<1, "single", 2>>, <<3, "single", 2>>} \subseteq file.refs
    /\ {1, 3} \subseteq walked
    /\ <<"1", "OwnerHistory", "2">> \in Triples(relationships)

\* C10: cleared write target.  When a CREATE has been sent, the destructive
\* clear has been executed exactly once, before the build and before that
\* CREATE, against the database the CREATE is written to, and that database
\* holds no prior content.
C10_ClearedWriteTarget ==
    /\ walked # {} => Count("CLEAR") = 1
    /\ \A j \in DOMAIN log :
          log[j].kind = "CREATE"
              => /\ Count("CLEAR") = 1
                 /\ \E i \in 1..(j - 1) :
                       /\ log[i].kind = "CLEAR"
                       /\ ~log[i].raised
                       /\ log[i].database = log[j].database
                 /\ ~db[log[j].database].prior
====
